---- MODULE Spec2Model ----
(***************************************************************************)
(* ISO 8601 time of day (chrono/time.rs): the TimeZ value type, its        *)
(* validated constructors and field mutators, addition of a Duration,      *)
(* subtraction of two times and the canonical rendering.                   *)
(*                                                                         *)
(* A TimeZ is a record [hour, min, sec, frac].  An Option<TimeZ> is a      *)
(* record [some, val].  A `uint` argument that may exceed the range of     *)
(* the integers of the model checker is kept as four 16-bit limbs, least   *)
(* significant first, and multiplied with wrap-around at the width of the  *)
(* target's machine word.                                                  *)
(***************************************************************************)
EXTENDS Integers, Sequences, FiniteSets, TLC

VARIABLES time, rhs, dur, call, ret, out, ops

vars == <<time, rhs, dur, call, ret, out, ops>>

-----------------------------------------------------------------------------
(* Program constants *)

NANOS_PER_SEC == 1000000000

MAX_FRAC == 2000000000

SECS_PER_DAY == 86400

LIMB == 65536

-----------------------------------------------------------------------------
(* Bounds of the model *)

\* operations applied to a value after its construction
MaxOps == 3

\* whole days added to a duration, in either direction
MaxDays == 2

-----------------------------------------------------------------------------
(* uint: the machine word, 32 or 64 bits wide, as four 16-bit limbs *)

UintOf(n) == <<n % LIMB, (n \div LIMB) % LIMB, 0, 0>>

UintFits(u, w) == w = 64 \/ (u[3] = 0 /\ u[4] = 0)

\* u >= n, for an n the model's integers hold
UintGE(u, n) ==
    \/ u[3] # 0
    \/ u[4] # 0
    \/ u[2] > n \div LIMB
    \/ (u[2] = n \div LIMB /\ u[1] >= n % LIMB)

\* the value of a u known to be below 2^31
UintVal(u) == u[2] * LIMB + u[1]

\* u * c, wrapping at 2^w as the unchecked multiplication of a uint does;
\* c is one of the scale factors 1_000_000 and 1_000
UintMul(u, c, w) ==
    LET c0 == c % LIMB
        c1 == c \div LIMB
        t1 == u[1] * c0
        t2 == u[2] * c0 + u[1] * c1 + (t1 \div LIMB)
        t3 == u[3] * c0 + u[2] * c1 + (t2 \div LIMB)
        t4 == u[4] * c0 + u[3] * c1 + (t3 \div LIMB)
    IN  IF w = 64
        THEN <<t1 % LIMB, t2 % LIMB, t3 % LIMB, t4 % LIMB>>
        ELSE <<t1 % LIMB, t2 % LIMB, 0, 0>>

-----------------------------------------------------------------------------
(* Duration: days, seconds of the day, nanoseconds of the second; the      *)
(* seconds and nanoseconds are never negative                              *)

Dur(d, s, n) == [days |-> d, secs |-> s, nanos |-> n]

DurZero == Dur(0, 0, 0)

DurDays(k) == Dur(k, 0, 0)

DurSeconds(s) == Dur(s \div SECS_PER_DAY, s % SECS_PER_DAY, 0)

DurMilliseconds(ms) ==
    LET s == ms \div 1000
    IN  Dur(s \div SECS_PER_DAY, s % SECS_PER_DAY, (ms % 1000) * 1000000)

DurNanoseconds(n) ==
    LET s == n \div NANOS_PER_SEC
    IN  Dur(s \div SECS_PER_DAY, s % SECS_PER_DAY, n % NANOS_PER_SEC)

DurAdd(a, b) ==
    LET n == a.nanos + b.nanos
        s == a.secs + b.secs + (n \div NANOS_PER_SEC)
    IN  Dur(a.days + b.days + (s \div SECS_PER_DAY), s % SECS_PER_DAY,
            n % NANOS_PER_SEC)

DurNeg(a) ==
    IF a.nanos = 0
    THEN IF a.secs = 0
         THEN Dur(-a.days, 0, 0)
         ELSE Dur(-a.days - 1, SECS_PER_DAY - a.secs, 0)
    ELSE Dur(-a.days - 1, SECS_PER_DAY - 1 - a.secs, NANOS_PER_SEC - a.nanos)

ndays(d) == d.days

nseconds(d) == d.secs

nnanoseconds(d) == d.nanos

-----------------------------------------------------------------------------
(* TimeZ *)

TimeZ(h, m, s, f) == [hour |-> h, min |-> m, sec |-> s, frac |-> f]

Some(t) == [some |-> TRUE, val |-> t]

None == [some |-> FALSE, val |-> TimeZ(0, 0, 0, 0)]

hour(t) == t.hour

minute(t) == t.min

second(t) == t.sec

nanosecond(t) == t.frac

hour12(t) ==
    LET h12 == hour(t) % 12
    IN  <<hour(t) >= 12, IF h12 = 0 THEN 12 ELSE h12>>

nseconds_from_midnight(t) == hour(t) * 3600 + minute(t) * 60 + second(t)

\* from_hms_nano with the fields narrowed to u8 before they are checked
from_hms_nano_cast_first(h, m, s, nano) ==
    IF h % 256 >= 24 \/ m % 256 >= 60 \/ s % 256 >= 60
       \/ UintGE(nano, MAX_FRAC)
    THEN None
    ELSE Some(TimeZ(h % 256, m % 256, s % 256, UintVal(nano)))

from_hms_nano(h, m, s, nano) ==
    IF h >= 24 \/ m >= 60 \/ s >= 60 \/ UintGE(nano, MAX_FRAC)
    THEN None
    ELSE Some(TimeZ(h % 256, m % 256, s % 256, UintVal(nano)))

from_hms(h, m, s) == from_hms_nano(h, m, s, UintOf(0))

from_hms_milli(h, m, s, milli, w) ==
    from_hms_nano(h, m, s, UintMul(milli, 1000000, w))

from_hms_micro(h, m, s, micro, w) ==
    from_hms_nano(h, m, s, UintMul(micro, 1000, w))

with_hour(t, h) ==
    IF h >= 24 THEN None ELSE Some([t EXCEPT !.hour = h % 256])

with_minute(t, m) ==
    IF m >= 60 THEN None ELSE Some([t EXCEPT !.min = m % 256])

with_second(t, s) ==
    IF s >= 60 THEN None ELSE Some([t EXCEPT !.sec = s % 256])

with_nanosecond(t, nano) ==
    IF UintGE(nano, MAX_FRAC) THEN None
    ELSE Some([t EXCEPT !.frac = UintVal(nano)])

\* add with the carry applied to the second after the split into fields
add_late_carry(self, d) ==
    LET secs     == nseconds_from_midnight(self) + nseconds(d)
        maxnanos == IF self.frac >= NANOS_PER_SEC THEN MAX_FRAC
                    ELSE NANOS_PER_SEC
        over     == (self.frac - maxnanos) + nnanoseconds(d)
        carry    == over >= 0
        nanos    == IF carry THEN over ELSE self.frac + nnanoseconds(d)
        s        == secs % 60
        mins     == secs \div 60
        m        == mins % 60
        hours    == mins \div 60
        h        == hours % 24
    IN  TimeZ(h % 256, m % 256, (IF carry THEN s + 1 ELSE s) % 256, nanos)

\* add without the reduction of the hours modulo 24
add_no_day_wrap(self, d) ==
    LET secs0    == nseconds_from_midnight(self) + nseconds(d)
        maxnanos == IF self.frac >= NANOS_PER_SEC THEN MAX_FRAC
                    ELSE NANOS_PER_SEC
        over     == (self.frac - maxnanos) + nnanoseconds(d)
        carry    == over >= 0
        nanos    == IF carry THEN over ELSE self.frac + nnanoseconds(d)
        secs     == IF carry THEN secs0 + 1 ELSE secs0
        s        == secs % 60
        mins     == secs \div 60
        m        == mins % 60
        hours    == mins \div 60
    IN  TimeZ(hours % 256, m % 256, s % 256, nanos)

\* add carrying at one second whether or not the receiver is in a leap
\* second
add_plain_second(self, d) ==
    LET secs0    == nseconds_from_midnight(self) + nseconds(d)
        maxnanos == NANOS_PER_SEC
        over     == (self.frac - maxnanos) + nnanoseconds(d)
        carry    == over >= 0
        nanos    == IF carry THEN over ELSE self.frac + nnanoseconds(d)
        secs     == IF carry THEN secs0 + 1 ELSE secs0
        s        == secs % 60
        mins     == secs \div 60
        m        == mins % 60
        hours    == mins \div 60
        h        == hours % 24
    IN  TimeZ(h % 256, m % 256, s % 256, nanos)

\* self + rhs.  The u32 sum self.frac + nnanoseconds is at most
\* 2,999,999,998 and cannot wrap; nanos - maxnanos is evaluated as
\* (self.frac - maxnanos) + nnanoseconds, the same number.
add(self, d) ==
    LET secs0    == nseconds_from_midnight(self) + nseconds(d)
        maxnanos == IF self.frac >= NANOS_PER_SEC THEN MAX_FRAC
                    ELSE NANOS_PER_SEC
        over     == (self.frac - maxnanos) + nnanoseconds(d)
        carry    == over >= 0
        nanos    == IF carry THEN over ELSE self.frac + nnanoseconds(d)
        secs     == IF carry THEN secs0 + 1 ELSE secs0
        s        == secs % 60
        mins     == secs \div 60
        m        == mins % 60
        hours    == mins \div 60
        h        == hours % 24
    IN  TimeZ(h % 256, m % 256, s % 256, nanos)

\* sub without the second borrowed for the fractional parts
sub_no_borrow(self, other) ==
    LET secs     == (self.hour - other.hour) * 3600
                    + (self.min - other.min) * 60
                    + (self.sec - other.sec)
        maxnanos == IF other.frac >= NANOS_PER_SEC THEN MAX_FRAC
                    ELSE NANOS_PER_SEC
        nanos1   == maxnanos - other.frac
        lastfrac == IF self.frac >= NANOS_PER_SEC THEN NANOS_PER_SEC ELSE 0
        nanos2   == self.frac - lastfrac
    IN  DurAdd(DurSeconds(secs), DurNanoseconds(nanos1 + nanos2))

\* sub taking the fraction of the minuend as it is stored
sub_raw_frac(self, other) ==
    LET secs     == (self.hour - other.hour) * 3600
                    + (self.min - other.min) * 60
                    + (self.sec - other.sec) - 1
        maxnanos == IF other.frac >= NANOS_PER_SEC THEN MAX_FRAC
                    ELSE NANOS_PER_SEC
        nanos1   == maxnanos - other.frac
        nanos2   == self.frac
    IN  DurAdd(DurSeconds(secs), DurNanoseconds(nanos1 + nanos2))

\* sub measuring the subtrahend against the next whole second always
sub_plain_second(self, other) ==
    LET secs     == (self.hour - other.hour) * 3600
                    + (self.min - other.min) * 60
                    + (self.sec - other.sec) - 1
        maxnanos == NANOS_PER_SEC
        nanos1   == maxnanos - other.frac
        lastfrac == IF self.frac >= NANOS_PER_SEC THEN NANOS_PER_SEC ELSE 0
        nanos2   == self.frac - lastfrac
    IN  DurAdd(DurSeconds(secs), DurNanoseconds(nanos1 + nanos2))

\* self - other
sub(self, other) ==
    LET secs     == (self.hour - other.hour) * 3600
                    + (self.min - other.min) * 60
                    + (self.sec - other.sec) - 1
        maxnanos == IF other.frac >= NANOS_PER_SEC THEN MAX_FRAC
                    ELSE NANOS_PER_SEC
        nanos1   == maxnanos - other.frac
        lastfrac == IF self.frac >= NANOS_PER_SEC THEN NANOS_PER_SEC ELSE 0
        nanos2   == self.frac - lastfrac
    IN  DurAdd(DurSeconds(secs), DurNanoseconds(nanos1 + nanos2))

-----------------------------------------------------------------------------
(* Rendering: text is a sequence of one-character strings *)

DIGITS == <<"0", "1", "2", "3", "4", "5", "6", "7", "8", "9">>

RECURSIVE Decimal(_)
Decimal(n) ==
    IF n < 10 THEN <<DIGITS[n + 1]>>
    ELSE Append(Decimal(n \div 10), DIGITS[(n % 10) + 1])

RECURSIVE ZeroPad(_, _)
\* {:0w}: at least w characters, zeros on the left
ZeroPad(txt, w) == IF Len(txt) >= w THEN txt ELSE ZeroPad(<<"0">> \o txt, w)

\* fmt trying the six-digit form before the three-digit one
fmt_micro_first(t) ==
    LET leap == t.frac >= NANOS_PER_SEC
        sec  == IF leap THEN (t.sec + 1) % 256 ELSE t.sec
        nano == IF leap THEN t.frac - NANOS_PER_SEC ELSE t.frac
        hms  == ZeroPad(Decimal(t.hour), 2) \o <<":">>
                \o ZeroPad(Decimal(t.min), 2) \o <<":">>
                \o ZeroPad(Decimal(sec), 2)
    IN  IF nano = 0 THEN hms
        ELSE IF nano % 1000 = 0
             THEN hms \o <<",">> \o ZeroPad(Decimal(nano \div 1000), 6)
        ELSE IF nano % 1000000 = 0
             THEN hms \o <<",">> \o ZeroPad(Decimal(nano \div 1000000), 3)
        ELSE hms \o <<",">> \o ZeroPad(Decimal(nano), 9)

fmt(t) ==
    LET leap == t.frac >= NANOS_PER_SEC
        sec  == IF leap THEN (t.sec + 1) % 256 ELSE t.sec
        nano == IF leap THEN t.frac - NANOS_PER_SEC ELSE t.frac
        hms  == ZeroPad(Decimal(t.hour), 2) \o <<":">>
                \o ZeroPad(Decimal(t.min), 2) \o <<":">>
                \o ZeroPad(Decimal(sec), 2)
    IN  IF nano = 0 THEN hms
        ELSE IF nano % 1000000 = 0
             THEN hms \o <<",">> \o ZeroPad(Decimal(nano \div 1000000), 3)
        ELSE IF nano % 1000 = 0
             THEN hms \o <<",">> \o ZeroPad(Decimal(nano \div 1000), 6)
        ELSE hms \o <<",">> \o ZeroPad(Decimal(nano), 9)

-----------------------------------------------------------------------------
(* Inputs of the operations *)

WordBits == {32, 64}

HourIn == {3, 23, 24, 259}

MinIn == {5, 59, 60}

SecIn == {7, 59, 60, 316}

\* nanoseconds: both ranges, their ends, and values past the u32 range
NanoIn ==
    { UintOf(0), UintOf(6543210), UintOf(900000000), UintOf(999999999),
      UintOf(1000000000), UintOf(1200000000), UintOf(1999999999),
      UintOf(2000000000), <<0, 0, 1, 0>>, <<5, 0, 0, 1>> }

\* milliseconds: 4295 * 10^6 passes 2^32, 18446744073710 * 10^6 passes 2^64
MilliIn ==
    { UintOf(0), UintOf(999), UintOf(1000), UintOf(1001), UintOf(1999),
      UintOf(2000), UintOf(4294), UintOf(4295), <<46574, 63392, 4294, 0>> }

\* microseconds: 4294968 * 10^3 passes 2^32, 18446744073709552 * 10^3 2^64
MicroIn ==
    { UintOf(0), UintOf(43210), UintOf(1000000), UintOf(1999999),
      UintOf(2000000), UintOf(4294967), UintOf(4294968),
      <<42992, 19398, 35127, 65>> }

WithHourIn == {0, 3, 24}

WithMinIn == {5, 60}

WithSecIn == {7, 60}

WithNanoIn ==
    { UintOf(900000000), UintOf(1300000000), UintOf(2000000000),
      <<0, 0, 1, 0>> }

DurIn ==
    { DurZero, DurMilliseconds(100), DurMilliseconds(800),
      DurSeconds(86399), DurSeconds(-86399), DurDays(12345),
      DurNanoseconds(-1),
      DurAdd(DurSeconds(-200000), DurMilliseconds(400)) }

DayIn == (0 - MaxDays) .. MaxDays

Called(op, self, other, h, m, s, n, w, d) ==
    [op |-> op, self |-> self, other |-> other, h |-> h, m |-> m, s |-> s,
     n |-> n, w |-> w, d |-> d]

NoCall ==
    Called("none", None.val, None.val, 0, 0, 0, UintOf(0), 0, DurZero)

-----------------------------------------------------------------------------
(* The life of a value: constructed, then mutated, added to and rendered *)

Init ==
    /\ time = None
    /\ rhs = None
    /\ dur = DurZero
    /\ call = NoCall
    /\ ret = None
    /\ out = <<>>
    /\ ops = 0

\* the first step constructs the value; the result is the live value, or
\* there is none
Constructed(r) ==
    /\ time' = r
    /\ ret' = r
    /\ out' = <<>>
    /\ UNCHANGED <<rhs, dur, ops>>

FromHms ==
    /\ call = NoCall
    /\ ~time.some
    /\ \E h \in HourIn, m \in MinIn, s \in SecIn :
           /\ call' = Called("from_hms", None.val, None.val, h, m, s,
                             UintOf(0), 0, DurZero)
           /\ Constructed(from_hms(h, m, s))

FromHmsMilli ==
    /\ call = NoCall
    /\ ~time.some
    /\ \E h \in HourIn, m \in MinIn, s \in SecIn, milli \in MilliIn,
          w \in WordBits :
           /\ UintFits(milli, w)
           /\ call' = Called("from_hms_milli", None.val, None.val, h, m, s,
                             milli, w, DurZero)
           /\ Constructed(from_hms_milli(h, m, s, milli, w))

FromHmsMicro ==
    /\ call = NoCall
    /\ ~time.some
    /\ \E h \in HourIn, m \in MinIn, s \in SecIn, micro \in MicroIn,
          w \in WordBits :
           /\ UintFits(micro, w)
           /\ call' = Called("from_hms_micro", None.val, None.val, h, m, s,
                             micro, w, DurZero)
           /\ Constructed(from_hms_micro(h, m, s, micro, w))

FromHmsNano ==
    /\ call = NoCall
    /\ ~time.some
    /\ \E h \in HourIn, m \in MinIn, s \in SecIn, nano \in NanoIn,
          w \in WordBits :
           /\ UintFits(nano, w)
           /\ call' = Called("from_hms_nano", None.val, None.val, h, m, s,
                             nano, w, DurZero)
           /\ Constructed(from_hms_nano(h, m, s, nano))

\* a mutator leaves its receiver alone; the value it returns becomes the
\* live one
Mutated(r) ==
    /\ ops' = ops + 1
    /\ ret' = r
    /\ time' = IF r.some THEN r ELSE time
    /\ out' = <<>>
    /\ UNCHANGED <<rhs, dur>>

WithHour ==
    /\ time.some
    /\ ops < MaxOps
    /\ \E h \in WithHourIn :
           /\ call' = Called("with_hour", time.val, None.val, h, 0, 0,
                             UintOf(0), 0, DurZero)
           /\ Mutated(with_hour(time.val, h))

WithMinute ==
    /\ time.some
    /\ ops < MaxOps
    /\ \E m \in WithMinIn :
           /\ call' = Called("with_minute", time.val, None.val, 0, m, 0,
                             UintOf(0), 0, DurZero)
           /\ Mutated(with_minute(time.val, m))

WithSecond ==
    /\ time.some
    /\ ops < MaxOps
    /\ \E s \in WithSecIn :
           /\ call' = Called("with_second", time.val, None.val, 0, 0, s,
                             UintOf(0), 0, DurZero)
           /\ Mutated(with_second(time.val, s))

WithNanosecond ==
    /\ time.some
    /\ ops < MaxOps
    /\ \E nano \in WithNanoIn, w \in WordBits :
           /\ UintFits(nano, w)
           /\ call' = Called("with_nanosecond", time.val, None.val, 0, 0, 0,
                             nano, w, DurZero)
           /\ Mutated(with_nanosecond(time.val, nano))

Add ==
    /\ time.some
    /\ ops < MaxOps
    /\ \E d \in DurIn :
           /\ ops' = ops + 1
           /\ call' = Called("add", time.val, None.val, 0, 0, 0, UintOf(0), 0, d)
           /\ time' = Some(add(time.val, d))
           /\ ret' = time'
           /\ out' = <<>>
           /\ UNCHANGED <<rhs, dur>>

Fmt ==
    /\ time.some
    /\ call.op # "fmt"
    /\ call' = Called("fmt", time.val, None.val, 0, 0, 0, UintOf(0), 0,
                      DurZero)
    /\ out' = fmt(time.val)
    /\ ret' = None
    /\ UNCHANGED <<time, rhs, dur, ops>>

Next ==
    \/ FromHms
    \/ FromHmsMilli
    \/ FromHmsMicro
    \/ FromHmsNano
    \/ WithHour
    \/ WithMinute
    \/ WithSecond
    \/ WithNanosecond
    \/ Add
    \/ Fmt

Spec == Init /\ [][Next]_vars

-----------------------------------------------------------------------------
(* Differencing two values and adding the difference back *)

ArithNanoIn ==
    { UintOf(0), UintOf(200000000), UintOf(300000000), UintOf(500000000),
      UintOf(800000000), UintOf(999999999), UintOf(1000000000),
      UintOf(1200000000), UintOf(1800000000), UintOf(1999999999),
      UintOf(2000000000) }

\* the values the nanosecond constructor returns for these inputs
ArithTimeIn ==
    { r \in { from_hms_nano(h, m, s, n) :
                  h \in {2, 3, 23, 24}, m \in {4, 5}, s \in {6, 7, 59},
                  n \in ArithNanoIn } : r.some }

InitArith ==
    /\ time \in ArithTimeIn
    /\ rhs \in ArithTimeIn
    /\ dur = DurZero
    /\ call = NoCall
    /\ ret = None
    /\ out = <<>>
    /\ ops = 0

\* dur = rhs - time
Sub ==
    /\ call.op = "none"
    /\ time.some
    /\ rhs.some
    /\ call' = Called("sub", rhs.val, time.val, 0, 0, 0, UintOf(0), 0,
                      DurZero)
    /\ dur' = sub(rhs.val, time.val)
    /\ UNCHANGED <<time, rhs, ret, out, ops>>

\* time + dur
AddBack ==
    /\ call.op = "sub"
    /\ call' = Called("add", time.val, None.val, 0, 0, 0, UintOf(0), 0, dur)
    /\ time' = Some(add(time.val, dur))
    /\ ret' = time'
    /\ UNCHANGED <<rhs, dur, out, ops>>

NextArith ==
    \/ Sub
    \/ AddBack

SpecArith == InitArith /\ [][NextArith]_vars

-----------------------------------------------------------------------------
(* Properties of subtraction and of adding a difference back *)

IsLeap(t) == t.frac >= NANOS_PER_SEC

\* t with the leap second folded onto the second before it
Folded(t) == [t EXCEPT !.frac = @ % NANOS_PER_SEC]

\* t moved into the leap second of the same hour, minute and second
Leaped(t) == [t EXCEPT !.frac = @ + NANOS_PER_SEC]

\* C1: for valid lhs and rhs with rhs not in a leap second,
\* lhs + (rhs - lhs) = rhs, whatever lhs is (here lhs is the receiver of
\* the addition and rhs the minuend of the subtraction before it)
C1_AddDifferenceBack ==
    (call.op = "add" /\ ~IsLeap(rhs.val)) => time.val = rhs.val

\* C2: for valid t1 and t2 with t2 not in a leap second,
\* (t1 - t2) + t2 = t1, whatever t1 is (here t2 is the receiver of the
\* addition and t1 the minuend)
C2_RoundTripAnyMinuend ==
    (call.op = "add" /\ ~IsLeap(call.self)) => time.val = rhs.val

\* C2, amended: for valid t1 and t2 with t2 not in a leap second,
\* (t1 - t2) + t2 is t1 with its fraction taken modulo 1,000,000,000: it is
\* t1 itself when t1 is not in a leap second either, and never a leap value
C2_RoundTripFolded ==
    (call.op = "add" /\ ~IsLeap(call.self)) =>
        /\ time.val = Folded(rhs.val)
        /\ ~IsLeap(rhs.val) => time.val = rhs.val

C2_Witness ==
    /\ call.op = "add"
    /\ ~IsLeap(call.self)
    /\ ~IsLeap(rhs.val)
    /\ nseconds_from_midnight(rhs.val) < nseconds_from_midnight(call.self)
    /\ rhs.val.frac < call.self.frac
    /\ time.val = rhs.val

\* C3: subtraction is antisymmetric: a - b = -(b - a) for all valid a
\* and b, in a leap second or not
C3_Antisymmetry ==
    call.op = "sub" => dur = DurNeg(sub(call.other, call.self))

C3_Witness ==
    /\ call.op = "sub"
    /\ IsLeap(call.self)
    /\ ~IsLeap(call.other)
    /\ ndays(dur) < 0
    /\ nnanoseconds(dur) > 0

\* C7: a - b is (seconds from midnight of a - seconds from midnight of b)
\* seconds plus (a.frac mod 10^9 - b.frac mod 10^9) nanoseconds, so moving
\* either operand into the leap second of its second changes nothing
C7_LeapCoincides ==
    call.op = "sub" =>
        LET a == call.self
            b == call.other
        IN  /\ dur = DurAdd(
                     DurSeconds(nseconds_from_midnight(a)
                                - nseconds_from_midnight(b)),
                     DurNanoseconds((a.frac % NANOS_PER_SEC)
                                    - (b.frac % NANOS_PER_SEC)))
            /\ ~IsLeap(a) => sub(Leaped(a), b) = dur
            /\ ~IsLeap(b) => sub(a, Leaped(b)) = dur

C7_Witness ==
    /\ call.op = "sub"
    /\ IsLeap(call.self)
    /\ IsLeap(call.other)
    /\ call.self.frac < call.other.frac
    /\ nseconds_from_midnight(call.self)
           > nseconds_from_midnight(call.other)

-----------------------------------------------------------------------------
(* Properties of construction, mutation, addition and rendering *)

InRange(t) ==
    /\ t.hour \in 0 .. 23
    /\ t.min \in 0 .. 59
    /\ t.sec \in 0 .. 59
    /\ t.frac \in 0 .. 1999999999

\* u <= n, for an n the model's integers hold
UintLE(u, n) ==
    /\ u[3] = 0
    /\ u[4] = 0
    /\ u[2] < 32768
    /\ u[2] * LIMB + u[1] <= n

\* C4: every value a constructor, a mutator or an addition returns, after
\* any sequence of them, has hour in 0..23, minute and second in 0..59 and
\* fraction in 0..1,999,999,999; addition always returns a value
C4_FieldsInRange ==
    /\ time.some => InRange(time.val)
    /\ ret.some => InRange(ret.val)
    /\ call.op = "add" => ret.some

C4_Witness ==
    /\ call.op = "add"
    /\ ops >= 2
    /\ ndays(call.d) < -1
    /\ IsLeap(call.self)
    /\ time.val.hour > call.self.hour

\* C5: addition wraps modulo 24 hours and drops the days: t + (d + k days)
\* = t + d for every k; t + k days = t and t + zero = t; +86399 s gives the
\* time one second earlier and -86399 s the time one second later, the
\* fraction unchanged
C5_DaysAbsorbed ==
    call.op = "add" =>
        LET t == call.self
            d == call.d
            r == time.val
        IN  /\ \A k \in DayIn : add(t, DurAdd(d, DurDays(k))) = r
            /\ \A k \in DayIn : add(t, DurDays(k)) = t
            /\ d = DurZero => r = t
            /\ d = DurDays(ndays(d)) => r = t
            /\ d = DurSeconds(86399) =>
                   /\ r.frac = t.frac
                   /\ nseconds_from_midnight(r)
                          = (nseconds_from_midnight(t) - 1) % SECS_PER_DAY
            /\ d = DurSeconds(-86399) =>
                   /\ r.frac = t.frac
                   /\ nseconds_from_midnight(r)
                          = (nseconds_from_midnight(t) + 1) % SECS_PER_DAY

C5_Witness ==
    /\ call.op = "add"
    /\ call.d = DurSeconds(86399)
    /\ IsLeap(call.self)
    /\ nseconds_from_midnight(call.self) = 0
    /\ time.val.hour = 23

\* C6: the carry of an addition depends on the receiver alone.  With n the
\* nanoseconds of the duration: for a receiver outside a leap second the
\* carry fires exactly when frac + n >= 10^9 and the result is never in a
\* leap second; for a receiver in a leap second it fires exactly when
\* frac + n >= 2 * 10^9, leaving frac + n - 2 * 10^9, and otherwise the
\* result keeps frac + n, still in the leap second
C6_CarryThreshold ==
    call.op = "add" =>
        LET t == call.self
            n == nnanoseconds(call.d)
            r == time.val
            whole == nseconds_from_midnight(t) + nseconds(call.d)
            fired == nseconds_from_midnight(r) = (whole + 1) % SECS_PER_DAY
            quiet == nseconds_from_midnight(r) = whole % SECS_PER_DAY
        IN  IF t.frac < NANOS_PER_SEC
            THEN /\ r.frac < NANOS_PER_SEC
                 /\ IF t.frac + n >= NANOS_PER_SEC THEN fired ELSE quiet
            ELSE IF (t.frac - NANOS_PER_SEC) + n >= NANOS_PER_SEC
                 THEN fired /\ r.frac = (t.frac - MAX_FRAC) + n
                 ELSE quiet /\ r.frac = t.frac + n /\ IsLeap(r)

C6_Witness ==
    /\ call.op = "add"
    /\ call.self.frac = 1200000000
    /\ nnanoseconds(call.d) = 800000000
    /\ time.val.frac = 0
    /\ time.val.sec = (call.self.sec + 1) % 60

\* C8: from_hms_nano(h, m, s, n) returns a value exactly when h <= 23,
\* m <= 59, s <= 59 and n <= 1,999,999,999, and the accessors of that value
\* return h, m, s and n as given
C8_NanoValidation ==
    call.op = "from_hms_nano" =>
        /\ ret.some <=> /\ call.h <= 23
                        /\ call.m <= 59
                        /\ call.s <= 59
                        /\ UintLE(call.n, 1999999999)
        /\ ret.some => /\ hour(ret.val) = call.h
                       /\ minute(ret.val) = call.m
                       /\ second(ret.val) = call.s
                       /\ UintOf(nanosecond(ret.val)) = call.n

C8_Witness ==
    /\ call.op = "from_hms_nano"
    /\ ret.some
    /\ call.h = 23
    /\ call.s = 59
    /\ nanosecond(ret.val) = 1999999999

\* C9: from_hms_milli returns a value exactly when h <= 23, m <= 59,
\* s <= 59 and milli <= 1,999, with fraction milli * 1,000,000, and
\* from_hms_micro exactly when the fields are valid and micro <= 1,999,999,
\* with fraction micro * 1,000, for every machine integer, those that make
\* the multiplication overflow included
C9_ScaledValidation ==
    /\ call.op = "from_hms_milli" =>
           /\ ret.some <=> /\ call.h <= 23
                           /\ call.m <= 59
                           /\ call.s <= 59
                           /\ UintLE(call.n, 1999)
           /\ ret.some => ret.val.frac = UintVal(call.n) * 1000000
    /\ call.op = "from_hms_micro" =>
           /\ ret.some <=> /\ call.h <= 23
                           /\ call.m <= 59
                           /\ call.s <= 59
                           /\ UintLE(call.n, 1999999)
           /\ ret.some => ret.val.frac = UintVal(call.n) * 1000

-----------------------------------------------------------------------------
(* Reading a rendering back *)

IsDigit(c) == \E i \in 1 .. 10 : DIGITS[i] = c

DigitValue(c) == (CHOOSE i \in 1 .. 10 : DIGITS[i] = c) - 1

RECURSIVE Number(_)
Number(txt) ==
    IF txt = <<>> THEN 0
    ELSE Number(SubSeq(txt, 1, Len(txt) - 1)) * 10 + DigitValue(txt[Len(txt)])

\* txt[from..to] is a run of digits that reads as n
Reads(txt, from, to, n) ==
    /\ Len(txt) >= to
    /\ \A i \in from .. to : IsDigit(txt[i])
    /\ Number(SubSeq(txt, from, to)) = n

\* C10: the rendering is HH:MM:SS with two digits each; the second shown
\* is sec for a fraction below 10^9 and sec + 1 otherwise; with r the
\* fraction modulo 10^9, nothing follows when r = 0, and otherwise a comma
\* and r / 10^6 in 3 digits if 10^6 divides r, else r / 10^3 in 6 digits
\* if 10^3 divides r, else r in 9 digits
C10_Rendering ==
    call.op = "fmt" =>
        LET t == call.self
            r == t.frac % NANOS_PER_SEC
            shown == IF t.frac < NANOS_PER_SEC THEN t.sec ELSE t.sec + 1
        IN  /\ Reads(out, 1, 2, t.hour)
            /\ out[3] = ":"
            /\ Reads(out, 4, 5, t.min)
            /\ out[6] = ":"
            /\ Reads(out, 7, 8, shown)
            /\ Len(out) = 8 <=> r = 0
            /\ r # 0 =>
                   /\ out[9] = ","
                   /\ IF r % 1000000 = 0
                      THEN Len(out) = 12 /\ Reads(out, 10, 12, r \div 1000000)
                      ELSE IF r % 1000 = 0
                           THEN /\ Len(out) = 15
                                /\ Reads(out, 10, 15, r \div 1000)
                           ELSE Len(out) = 18 /\ Reads(out, 10, 18, r)

C10_Witness ==
    /\ call.op = "fmt"
    /\ call.self.frac = 1001000000
    /\ call.self.sec = 59
    /\ out = <<"2", "3", ":", "5", "9", ":", "6", "0", ",", "0", "0", "1">>

====
